---- MODULE Spec2Model ----
(* A state-machine model of the sitira firmware: the granular engine          *)
(* (granular.rs), the dual 4051 multiplexer reader (dual_mux_4051.rs), the    *)
(* polled binary input (binary_input.rs), the SDRAM slices (sdram.rs), and    *)
(* the sample load and the audio / interface interrupt handlers of main.rs.   *)
(*                                                                            *)
(* Numbers.  A u32 / usize value (the target is a 32-bit Cortex-M7) is held   *)
(* as its two's-complement residue modulo 2^32: v itself below 2^31 and       *)
(* v - 2^32 from there on, so that u32::MAX is -1.  The sums and differences  *)
(* the model forms stay within the residues' range, where they are those of   *)
(* the u32 values, and a product is formed by doubling with an explicit       *)
(* wrap; comparisons and overflow are those of the unsigned values.           *)
(* f32 times are held in units of 1/TimeUnit ms and f32 grain sizes in units  *)
(* of 1/SizeUnit sample; every value the model draws is dyadic and small, so  *)
(* the f32 arithmetic of the source is exact on it.                           *)
EXTENDS Integers, Sequences, FiniteSets, TLC

VARIABLES
    overflow_checks, \* build profile: TRUE = arithmetic overflow panics
    panicked,        \* a panic has halted the firmware
    grain,           \* one Grain
    lastOp,          \* the Grain / Grains / DualMux operation that ran last
    lastArg,         \* its argument
    lastRet,         \* its return value (0 when it returns nothing)
    wrapped,         \* the last operation's u32 arithmetic wrapped around
    prevOffsetArg,   \* set_offset ran last: had_arg and arg of the call before it
    offsetArg,       \* had_arg and arg of the most recent set_offset call
    nsCalls,         \* update_next_sample calls since a start at playhead 0
    doneCall,        \* the call of those that set done, 0 if none yet
    offsetBefore,    \* the grain's offset before the last operation
    pool,            \* the Grains pool
    poolAmount,      \* grain_amount the pool was built with
    select,          \* DualMux: levels of select0_pin, select1_pin, select2_pin
    conversion,      \* DualMux: the pin the ADC converts, "none" if none started
    value,           \* DualMux: the value cache, raw samples per input
    reads,           \* DualMux: read_value calls made
    routed,          \* DualMux: per read_value call so far, the channel with
                     \* the pin converted and the select levels driven for it
    file_length_in_samples, \* samples loaded into the sample store at boot
    playhead,        \* audio_handler's local playhead
    index,           \* audio_handler's index into the sample store
    frame,           \* frames of the current block audio_handler has processed
    audioPc,         \* where audio_handler is: idle, read, run, push, advance
    lastRead,        \* the store index audio_handler read last, -1 if none
    observed,        \* what audio_handler's last biquad.lock section saw
    dmaPending,      \* the DMA1_STR1 interrupt is pending
    tim2Pending,     \* the TIM2 interrupt is pending
    ctlPc,           \* where interface_handler is
    ctlValue,        \* interface_handler's local value (the cutoff read)
    biquad,          \* the shared biquad's coefficients, written in two parts
    published,       \* the coefficients as the last completed lock left them
    encoder_value,   \* the shared encoder_value
    pin,             \* BinaryInput: the electrical level of the pin, TRUE = high
    binary_input,    \* BinaryInput: input_type, state and transition
    savePc,          \* BinaryInput: where save_state is: idle, second, store
    polls,           \* BinaryInput: save_state calls completed
    poll,            \* BinaryInput: the latest save_state call, as it began
    slice,           \* sdram: the latest get_slice call and what it returned
    boot             \* init: progress of the sample load from the SD card

grainVars == <<grain, prevOffsetArg, offsetArg, nsCalls, doneCall, offsetBefore>>
poolVars == <<pool, poolAmount>>
muxVars == <<select, conversion, value, reads, routed>>
audioVars == <<file_length_in_samples, playhead, index, frame, audioPc, lastRead,
               observed, dmaPending>>
ctlVars == <<tim2Pending, ctlPc, ctlValue, biquad, published, encoder_value>>
commonVars == <<overflow_checks, panicked, lastOp, lastArg, lastRet, wrapped>>
inputVars == <<pin, binary_input, savePc, polls, poll>>
sdramVars == <<slice>>
bootVars == <<boot>>
vars == <<commonVars, grainVars, poolVars, muxVars, audioVars, ctlVars, inputVars,
          sdramVars, bootVars>>

-----------------------------------------------------------------------------
(* Program constants *)

U32Max == 0 - 1            \* u32::MAX as a residue
MAX_GRAINS == 64
AUDIO_SAMPLE_RATE == 48000
DefaultOffset == 1000
Hop == 5

(* Units of the fixed-point view of f32 values *)
TimeUnit == 2 ^ 5  \* grain lengths are multiples of 1/32 ms
SizeUnit == 2 ^ 1  \* sizes are multiples of 1/2 sample

MUX_INPUTS == 8
SDRAM_SIZE == \H4000000
\* 0xC0000000, as the residue 0xC0000000 - 2^32
SDRAM_BASE_ADDRESS == 0 - \H40000000
ADC_MAX == 65535   \* adc.max_sample() at 16 bit resolution

PlayheadStart == 457
CHUNK_SIZE == 48000
AudioPriority == 8
InterfacePriority == 1

(* Bounds of the model *)
BLOCK_SIZE_MAX == 4 \* frames per audio block; libdaisy sets it, the model keeps it small
MaxPosition == 60  \* update_sample_position is not called beyond this position
MaxCalls == 55     \* update_next_sample calls followed after one start
MaxReads == 2      \* read_value calls followed
MaxChannel == 17   \* the largest input_number passed to read_value
MaxPolls == 3      \* save_state calls followed

(* Inputs *)
SampleLengths == {0, 64, 100}
GrainLengths == {0, TimeUnit, TimeUnit + 1}     \* 0 ms, 1 ms, 1.03125 ms
Offsets == {7, 1000, U32Max}

-----------------------------------------------------------------------------
(* Grain *)

\* self.size as u32: the cast truncates toward zero
SizeAsU32(g) == g.size \div SizeUnit

\* a < b as u32 values
LtU32(a, b) == IF (a < 0) = (b < 0) THEN a < b ELSE b < 0

\* a u32 subtraction a - b: the wrapped result and whether it overflowed
SubU32(a, b) == [val |-> a - b, ovf |-> LtU32(a, b)]

\* a u32 addition a + b
AddU32(a, b) ==
    [val |-> a + b,
     ovf |-> (a < 0 /\ b < 0) \/ (((a < 0) # (b < 0)) /\ a + b >= 0)]

GrainNew(grain_length, sample_length) ==
    LET gl == IF grain_length < TimeUnit THEN TimeUnit ELSE grain_length
    IN  [offset |-> DefaultOffset,
         current_position |-> 0,
         size |-> (AUDIO_SAMPLE_RATE * gl * SizeUnit) \div (1000 * TimeUnit),
         playhead |-> 0,
         sample_length |-> sample_length,
         done |-> TRUE]

\* Each operation below yields [g: the grain afterwards, ret: the value
\* returned, ovf: some u32 operation overflowed].  With overflow checks on, an
\* overflow panics at that operation and g is the grain as the panic leaves it.

GrainUpdateSamplePosition(g, checks) ==
    LET pos == AddU32(g.offset, g.current_position)
        cp == AddU32(g.current_position, Hop)
        lim == SubU32(g.sample_length, SizeAsU32(g))
        g1 == [g EXCEPT !.current_position = cp.val]
        g2 == IF LtU32(lim.val, cp.val)
              THEN [g1 EXCEPT !.current_position = 0, !.done = TRUE]
              ELSE g1
    IN  IF checks /\ (pos.ovf \/ cp.ovf) THEN [g |-> g, ret |-> 0, ovf |-> TRUE]
        ELSE IF checks /\ lim.ovf THEN [g |-> g1, ret |-> 0, ovf |-> TRUE]
        ELSE [g |-> g2, ret |-> pos.val, ovf |-> pos.ovf \/ cp.ovf \/ lim.ovf]

\* set_offset handing back the offset it has just stored, not the one replaced
GrainSetOffsetReturnsNew(g, offset, checks) ==
    LET max_offset == SubU32(g.sample_length, SizeAsU32(g))
        off == IF LtU32(max_offset.val, offset) THEN max_offset.val ELSE offset
    IN  IF checks /\ max_offset.ovf THEN [g |-> g, ret |-> 0, ovf |-> TRUE]
        ELSE [g |-> [g EXCEPT !.offset = off], ret |-> off, ovf |-> max_offset.ovf]

GrainSetOffset(g, offset, checks) ==
    LET max_offset == SubU32(g.sample_length, SizeAsU32(g))
        off == IF LtU32(max_offset.val, offset) THEN max_offset.val ELSE offset
    IN  IF checks /\ max_offset.ovf THEN [g |-> g, ret |-> 0, ovf |-> TRUE]
        ELSE [g |-> [g EXCEPT !.offset = off], ret |-> g.offset, ovf |-> max_offset.ovf]

GrainStartWindowFuntion(g) ==
    [g EXCEPT !.done = FALSE, !.current_position = 0]

\* the playhead part of update_window_function (playhead < size compares f32)
GrainUpdateWindowFunction(g) ==
    IF ~g.done
    THEN IF g.playhead * SizeUnit < g.size
         THEN [g EXCEPT !.playhead = g.playhead + 1]
         ELSE [g EXCEPT !.playhead = 0, !.done = TRUE]
    ELSE g

-----------------------------------------------------------------------------
(* Grains *)

\* grain_size_spread_in_ms / active_grains as f32: dividing by zero gives an
\* infinity, or NaN for 0.0 / 0.0; the model's spreads divide exactly
SpreadPerGrain(spread_ms, active_grains) ==
    IF active_grains = 0
    THEN [kind |-> IF spread_ms = 0 THEN "NaN" ELSE "inf", val |-> 0]
    ELSE [kind |-> "num", val |-> spread_ms \div active_grains]

ActiveGrains(grain_amount) ==
    LET a0 == 0
        a1 == IF grain_amount > MAX_GRAINS THEN MAX_GRAINS ELSE a0
    IN  IF grain_amount = 0 THEN 1 ELSE a1

GrainsNew(grain_amount, grain_size_in_ms, grain_size_spread_in_ms, sample_length) ==
    LET active_grains == ActiveGrains(grain_amount)
        grain_size_spread == SpreadPerGrain(grain_size_spread_in_ms, active_grains)
    IN  [grains |-> [instance \in 0 .. MAX_GRAINS - 1 |->
                        IF instance < active_grains
                        THEN GrainNew(instance * grain_size_spread.val + grain_size_in_ms,
                                      sample_length)
                        ELSE GrainNew(TimeUnit, sample_length)],
         grain_size |-> grain_size_in_ms,
         grain_size_spread |-> grain_size_spread,
         active_grains |-> active_grains]

\* the instances of 0 .. active_grains-1 a loop reaches before its first panic
Reached(p, faults) ==
    {i \in 0 .. p.active_grains - 1 : \A j \in 0 .. i - 1 : ~faults[j]}

GrainsSetOffset(p, offset, checks) ==
    LET res == [i \in 0 .. MAX_GRAINS - 1 |-> GrainSetOffset(p.grains[i], offset, checks)]
        faults == [i \in 0 .. MAX_GRAINS - 1 |-> checks /\ res[i].ovf]
        reached == Reached(p, faults)
    IN  [p |-> [p EXCEPT !.grains = [i \in 0 .. MAX_GRAINS - 1 |->
                                        IF i \in reached THEN res[i].g ELSE p.grains[i]]],
         ovf |-> \E i \in reached : res[i].ovf]

\* start_window_funtion looping over the whole array, not the active part
GrainsStartWholeArray(p) ==
    [p EXCEPT !.grains = [i \in 0 .. MAX_GRAINS - 1 |->
                             GrainStartWindowFuntion(p.grains[i])]]

GrainsStartWindowFuntion(p) ==
    [p EXCEPT !.grains = [i \in 0 .. MAX_GRAINS - 1 |->
                             IF i < p.active_grains
                             THEN GrainStartWindowFuntion(p.grains[i])
                             ELSE p.grains[i]]]

-----------------------------------------------------------------------------
(* DualMux *)

Bit(n, k) == (n \div (2 ^ k)) % 2

\* input_number.clamp(0, 15) as u8
ClampInput(input_number) == IF input_number > 15 THEN 15 ELSE input_number

\* set_select_pins: the levels driven on select0, select1, select2
SetSelectPins(input_number) ==
    LET n == ClampInput(input_number)
    IN  <<Bit(n, 0), Bit(n, 1), Bit(n, 2)>>

\* the match of read_value: the pin a conversion is started on
StartedOn(input_number) ==
    IF input_number <= 8 THEN "mux1_pin"
    ELSE IF input_number <= 16 THEN "mux2_pin"
    ELSE "none"

-----------------------------------------------------------------------------
(* The states of the components a specification leaves alone *)

NoArg == [had |-> FALSE, arg |-> 0]

GrainIdle ==
    /\ grain = GrainNew(0, 0)
    /\ prevOffsetArg = NoArg /\ offsetArg = NoArg /\ nsCalls = -1 /\ doneCall = 0
    /\ offsetBefore = DefaultOffset

\* no pool has been built
NoPool ==
    [grains |-> << >>, grain_size |-> 0,
     grain_size_spread |-> [kind |-> "num", val |-> 0], active_grains |-> 0]

PoolIdle ==
    /\ pool = NoPool
    /\ poolAmount = 0

MuxIdle ==
    /\ select = <<0, 0, 0>>
    /\ conversion = "none"
    /\ value = [i \in 0 .. 2 * MUX_INPUTS - 1 |-> 0]
    /\ reads = 0
    /\ routed = {}

RtIdle ==
    /\ file_length_in_samples = 0 /\ playhead = PlayheadStart /\ index = 0
    /\ frame = 0 /\ audioPc = "idle" /\ lastRead = -1
    /\ observed = [seen |-> [b |-> 0, a |-> 0], published |-> [b |-> 0, a |-> 0]]
    /\ dmaPending = FALSE /\ tim2Pending = FALSE
    /\ ctlPc = "idle" /\ ctlValue = 0
    /\ biquad = [b |-> 0, a |-> 0] /\ published = [b |-> 0, a |-> 0]
    /\ encoder_value = 0

\* a BinaryInput as new builds it, before any poll
NewBinaryInput(input_type) ==
    [input_type |-> input_type, state |-> FALSE, transition |-> FALSE]

NoPoll ==
    [stable |-> TRUE, high |-> FALSE, saved |-> FALSE, triggered |-> FALSE,
     stableBefore |-> TRUE]

InputIdle ==
    /\ pin = FALSE
    /\ binary_input = NewBinaryInput("ActiveHigh")
    /\ savePc = "idle" /\ polls = 0 /\ poll = NoPoll

\* get_slice has not been called
NoSlice ==
    [called |-> FALSE, size_of_T |-> 1, offset |-> 0, len |-> 0, some |-> FALSE,
     addr |-> 0]

SdramIdle == slice = NoSlice

\* init before it touches the SD card
BootStart ==
    [pc |-> "init_card", failed |-> "none", shown |-> "",
     file_length_in_bytes |-> 0, i |-> 0, percentage |-> -1]

BootIdle == boot = BootStart

CommonInit ==
    /\ overflow_checks \in BOOLEAN
    /\ panicked = FALSE
    /\ lastOp = "new" /\ lastArg = 0 /\ lastRet = 0 /\ wrapped = FALSE

\* the effect of an operation's u32 arithmetic: a panic under overflow
\* checks, a silent wrap-around without them
Overflow(ovf) ==
    /\ panicked' = (overflow_checks /\ ovf)
    /\ wrapped' = (~overflow_checks /\ ovf)
    /\ UNCHANGED overflow_checks

-----------------------------------------------------------------------------
(* One grain driven through its public operations *)

GrainInit ==
    /\ CommonInit
    /\ \E gl \in GrainLengths, sl \in SampleLengths : grain = GrainNew(gl, sl)
    /\ prevOffsetArg = NoArg /\ offsetArg = NoArg /\ nsCalls = -1 /\ doneCall = 0
    /\ offsetBefore = DefaultOffset
    /\ PoolIdle /\ MuxIdle /\ RtIdle /\ InputIdle /\ SdramIdle /\ BootIdle

UpdateSamplePosition ==
    /\ ~panicked
    /\ offsetBefore' = grain.offset
    /\ grain.current_position <= MaxPosition
    /\ LET r == GrainUpdateSamplePosition(grain, overflow_checks)
       IN  /\ grain' = r.g
           /\ Overflow(r.ovf)
           /\ lastOp' = "update_sample_position" /\ lastArg' = 0 /\ lastRet' = r.ret
           /\ nsCalls' = IF ~grain.done /\ r.g.done THEN -1 ELSE nsCalls
    /\ prevOffsetArg' = NoArg
    /\ UNCHANGED <<offsetArg, doneCall, poolVars, muxVars, audioVars, ctlVars,
                   inputVars, sdramVars, bootVars>>

UpdateNextSample ==
    /\ ~panicked
    /\ offsetBefore' = grain.offset
    /\ nsCalls < MaxCalls
    /\ grain' = GrainUpdateWindowFunction(grain)
    /\ Overflow(FALSE)
    /\ lastOp' = "update_next_sample" /\ lastArg' = 0 /\ lastRet' = 0
    /\ nsCalls' = IF nsCalls >= 0 THEN nsCalls + 1 ELSE nsCalls
    /\ doneCall' = IF nsCalls >= 0 /\ ~grain.done /\ grain'.done
                   THEN nsCalls + 1 ELSE doneCall
    /\ prevOffsetArg' = NoArg
    /\ UNCHANGED <<offsetArg, poolVars, muxVars, audioVars, ctlVars,
                   inputVars, sdramVars, bootVars>>

SetOffset ==
    /\ ~panicked
    /\ offsetBefore' = grain.offset
    /\ \E offset \in Offsets :
          LET r == GrainSetOffset(grain, offset, overflow_checks)
          IN  /\ grain' = r.g
              /\ Overflow(r.ovf)
              /\ lastOp' = "set_offset" /\ lastArg' = offset /\ lastRet' = r.ret
              /\ IF overflow_checks /\ r.ovf
                 THEN prevOffsetArg' = NoArg /\ UNCHANGED offsetArg
                 ELSE prevOffsetArg' = offsetArg /\ offsetArg' = [had |-> TRUE, arg |-> offset]
    /\ UNCHANGED <<nsCalls, doneCall, poolVars, muxVars, audioVars, ctlVars,
                   inputVars, sdramVars, bootVars>>

StartWindowFuntion ==
    /\ ~panicked
    /\ offsetBefore' = grain.offset
    /\ grain' = GrainStartWindowFuntion(grain)
    /\ Overflow(FALSE)
    /\ lastOp' = "start_window_funtion" /\ lastArg' = 0 /\ lastRet' = 0
    /\ nsCalls' = IF grain.playhead = 0 THEN 0 ELSE -1
    /\ doneCall' = 0
    /\ prevOffsetArg' = NoArg
    /\ UNCHANGED <<offsetArg, poolVars, muxVars, audioVars, ctlVars,
                   inputVars, sdramVars, bootVars>>

GrainNext ==
    \/ UpdateSamplePosition
    \/ UpdateNextSample
    \/ SetOffset
    \/ StartWindowFuntion

GrainSpec == GrainInit /\ [][GrainNext]_vars

-----------------------------------------------------------------------------
(* A Grains pool driven through its public operations *)

Spreads == {0, 2 * TimeUnit}      \* 0 ms, 2 ms

PoolInit ==
    /\ CommonInit
    /\ \E n \in 0 .. MAX_GRAINS + 2, gl \in GrainLengths, sp \in Spreads,
          sl \in SampleLengths :
          /\ pool = GrainsNew(n, gl, sp, sl)
          /\ poolAmount = n
    /\ GrainIdle /\ MuxIdle /\ RtIdle /\ InputIdle /\ SdramIdle /\ BootIdle

PoolSetOffset ==
    /\ ~panicked
    /\ \E offset \in Offsets :
          LET r == GrainsSetOffset(pool, offset, overflow_checks)
          IN  /\ pool' = r.p
              /\ Overflow(r.ovf)
              /\ lastOp' = "Grains::set_offset" /\ lastArg' = offset /\ lastRet' = 0
    /\ UNCHANGED <<poolAmount, grainVars, muxVars, audioVars, ctlVars,
                   inputVars, sdramVars, bootVars>>

PoolStartWindowFuntion ==
    /\ ~panicked
    /\ pool' = GrainsStartWindowFuntion(pool)
    /\ Overflow(FALSE)
    /\ lastOp' = "Grains::start_window_funtion" /\ lastArg' = 0 /\ lastRet' = 0
    /\ UNCHANGED <<poolAmount, grainVars, muxVars, audioVars, ctlVars,
                   inputVars, sdramVars, bootVars>>

PoolNext ==
    \/ PoolSetOffset
    \/ PoolStartWindowFuntion

PoolSpec == PoolInit /\ [][PoolNext]_vars

-----------------------------------------------------------------------------
(* The multiplexed analog reader polled by its owner *)

AdcSamples == {0, ADC_MAX}

MuxInit ==
    /\ CommonInit
    /\ MuxIdle /\ GrainIdle /\ PoolIdle /\ RtIdle /\ InputIdle /\ SdramIdle
    /\ BootIdle

\* read_value on an input that starts a conversion: the pins are driven, the
\* conversion is read and stored; storing at index 16 is out of bounds
ReadValue ==
    /\ ~panicked
    /\ reads < MaxReads
    /\ \E input_number \in 0 .. MaxChannel, data \in AdcSamples :
          /\ StartedOn(input_number) # "none"
          /\ select' = SetSelectPins(input_number)
          /\ conversion' = StartedOn(input_number)
          /\ routed' = routed \cup {<<input_number, StartedOn(input_number),
                                      SetSelectPins(input_number)>>}
          /\ IF input_number < 2 * MUX_INPUTS
             THEN value' = [value EXCEPT ![input_number] = data] /\ panicked' = FALSE
             ELSE UNCHANGED value /\ panicked' = TRUE
          /\ lastOp' = "read_value" /\ lastArg' = input_number /\ lastRet' = 0
    /\ reads' = reads + 1
    /\ UNCHANGED <<overflow_checks, wrapped, grainVars, poolVars, audioVars, ctlVars,
                   inputVars, sdramVars, bootVars>>

\* read_value on an input above 16: no pin is driven and no conversion is
\* started; the ADC is read all the same.  Either that read yields no sample
\* and the call returns without a store, or the firmware does not get past
\* the read or the out-of-bounds store behind it.
ReadValueUnrouted ==
    /\ ~panicked
    /\ reads < MaxReads
    /\ \E input_number \in 0 .. MaxChannel :
          /\ StartedOn(input_number) = "none"
          /\ lastOp' = "read_value" /\ lastArg' = input_number /\ lastRet' = 0
    /\ conversion' = "none"
    /\ panicked' \in BOOLEAN
    /\ reads' = reads + 1
    /\ UNCHANGED <<overflow_checks, wrapped, select, value, routed, grainVars, poolVars,
                   audioVars, ctlVars,
                   inputVars, sdramVars, bootVars>>

\* get_value: the cached value of an input, indexed without a range check
GetValue ==
    /\ ~panicked
    /\ \E input_number \in 0 .. MaxChannel :
          /\ lastOp' = "get_value" /\ lastArg' = input_number
          /\ IF input_number < 2 * MUX_INPUTS
             THEN lastRet' = value[input_number] /\ panicked' = FALSE
             ELSE lastRet' = 0 /\ panicked' = TRUE
    /\ UNCHANGED <<overflow_checks, wrapped, muxVars, grainVars, poolVars, audioVars, ctlVars,
                   inputVars, sdramVars, bootVars>>

MuxNext ==
    \/ ReadValue
    \/ ReadValueUnrouted
    \/ GetValue

MuxSpec == MuxInit /\ [][MuxNext]_vars

-----------------------------------------------------------------------------
(* The two interrupt handlers of main.rs under RTIC's scheduling: a pending   *)
(* interrupt runs as soon as its priority exceeds that of the running code,   *)
(* and a lock runs its closure at the resource's ceiling priority.            *)

FileLengths == {0, 400, 459, 466}
ControlValues == {1, 2}
EncoderValues == {0, 1}

\* a ceiling that leaves audio_handler out of the tasks sharing the biquad
CeilingWithoutAudio == InterfacePriority

\* the ceiling of the shared biquad: the highest priority of a task sharing it
CeilingBiquad ==
    IF AudioPriority > InterfacePriority THEN AudioPriority ELSE InterfacePriority

InBiquadLock == ctlPc \in {"write_b", "write_a", "unlock"}

\* the priority the core runs at
CurrentPriority ==
    IF audioPc # "idle" THEN AudioPriority
    ELSE IF InBiquadLock THEN CeilingBiquad
    ELSE IF ctlPc # "idle" THEN InterfacePriority
    ELSE 0

\* interface_handler going on while audio_handler runs, as a task of the
\* same or a higher priority would
CtlRunsBesideAudio ==
    /\ ~panicked
    /\ ctlPc # "idle"

\* interface_handler is the running code
CtlRuns ==
    /\ ~panicked
    /\ audioPc = "idle"
    /\ ctlPc # "idle"
    /\ ~(dmaPending /\ CurrentPriority < AudioPriority)

RtInit ==
    /\ CommonInit
    /\ file_length_in_samples \in FileLengths
    /\ playhead = PlayheadStart /\ index = 0
    /\ frame = 0 /\ audioPc = "idle" /\ lastRead = -1
    /\ observed = [seen |-> [b |-> 0, a |-> 0], published |-> [b |-> 0, a |-> 0]]
    /\ dmaPending = FALSE /\ tim2Pending = FALSE
    /\ ctlPc = "idle" /\ ctlValue = 0
    /\ biquad = [b |-> 0, a |-> 0] /\ published = [b |-> 0, a |-> 0]
    /\ encoder_value = 0
    /\ GrainIdle /\ PoolIdle /\ MuxIdle /\ InputIdle /\ SdramIdle /\ BootIdle

RtFrame ==
    UNCHANGED <<commonVars, grainVars, poolVars, muxVars, inputVars, sdramVars,
                bootVars>>

\* the audio DMA raises its interrupt
DmaIrq ==
    /\ ~panicked /\ ~dmaPending
    /\ dmaPending' = TRUE
    /\ UNCHANGED <<file_length_in_samples, playhead, index, frame, audioPc,
                   lastRead, observed, ctlVars>>
    /\ RtFrame

\* timer 2 raises its interrupt
Tim2Irq ==
    /\ ~panicked /\ ~tim2Pending
    /\ tim2Pending' = TRUE
    /\ UNCHANGED <<audioVars, ctlPc, ctlValue, biquad, published, encoder_value>>
    /\ RtFrame

\* audio_handler is entered: index = *ctx.local.index + *ctx.local.playhead
AudioEnter ==
    /\ ~panicked /\ dmaPending /\ audioPc = "idle"
    /\ CurrentPriority < AudioPriority
    /\ dmaPending' = FALSE
    /\ index' = 0 + playhead
    /\ frame' = 0
    /\ audioPc' = "read"
    /\ UNCHANGED <<file_length_in_samples, playhead, lastRead, observed, ctlVars>>
    /\ RtFrame

\* let mut mono = sdram[index] * 0.7
AudioRead ==
    /\ ~panicked /\ audioPc = "read"
    /\ lastRead' = index
    /\ audioPc' = "run"
    /\ UNCHANGED <<file_length_in_samples, playhead, index, frame, observed,
                   dmaPending, ctlVars>>
    /\ RtFrame

\* biquad.lock(|biquad| mono = biquad.run(mono))
AudioRun ==
    /\ ~panicked /\ audioPc = "run"
    /\ observed' = [seen |-> biquad, published |-> published]
    /\ audioPc' = "push"
    /\ UNCHANGED <<file_length_in_samples, playhead, index, frame, lastRead,
                   dmaPending, ctlVars>>
    /\ RtFrame

\* audio.push_stereo((mono, mono)); index += 1; next frame of the buffer
AudioPush ==
    /\ ~panicked /\ audioPc = "push"
    /\ index' = index + 1
    /\ frame' = frame + 1
    /\ audioPc' = IF frame + 1 < BLOCK_SIZE_MAX THEN "read" ELSE "advance"
    /\ UNCHANGED <<file_length_in_samples, playhead, lastRead, observed,
                   dmaPending, ctlVars>>
    /\ RtFrame

\* the playhead moves on by a block, or back to the start
AudioAdvance ==
    /\ ~panicked /\ audioPc = "advance"
    /\ playhead' = IF playhead < file_length_in_samples
                   THEN playhead + BLOCK_SIZE_MAX
                   ELSE PlayheadStart
    /\ audioPc' = "idle"
    /\ UNCHANGED <<file_length_in_samples, index, frame, lastRead, observed,
                   dmaPending, ctlVars>>
    /\ RtFrame

\* interface_handler is entered
CtlEnter ==
    /\ ~panicked /\ tim2Pending /\ ctlPc = "idle"
    /\ CurrentPriority < InterfacePriority
    /\ ~(dmaPending /\ CurrentPriority < AudioPriority)
    /\ ctlPc' = "adc"
    /\ UNCHANGED <<audioVars, tim2Pending, ctlValue, biquad, published, encoder_value>>
    /\ RtFrame

\* timer2.clear_irq(); the pot is read; value = value * 20_000.0 + 20.0
CtlReadAdc ==
    /\ CtlRuns /\ ctlPc = "adc"
    /\ tim2Pending' = FALSE
    /\ ctlValue' \in ControlValues
    /\ ctlPc' = "lock"
    /\ UNCHANGED <<audioVars, biquad, published, encoder_value>>
    /\ RtFrame

\* ctx.shared.biquad.lock: the priority is raised to the ceiling
CtlLock ==
    /\ CtlRuns /\ ctlPc = "lock"
    /\ ctlPc' = "write_b"
    /\ UNCHANGED <<audioVars, tim2Pending, ctlValue, biquad, published, encoder_value>>
    /\ RtFrame

\* replace_coefficients stores the new coefficients, field after field
CtlWriteB ==
    /\ CtlRuns /\ ctlPc = "write_b"
    /\ biquad' = [biquad EXCEPT !.b = ctlValue]
    /\ ctlPc' = "write_a"
    /\ UNCHANGED <<audioVars, tim2Pending, ctlValue, published, encoder_value>>
    /\ RtFrame

CtlWriteA ==
    /\ CtlRuns /\ ctlPc = "write_a"
    /\ biquad' = [biquad EXCEPT !.a = ctlValue]
    /\ ctlPc' = "unlock"
    /\ UNCHANGED <<audioVars, tim2Pending, ctlValue, published, encoder_value>>
    /\ RtFrame

\* the closure returns and the priority is restored
CtlUnlock ==
    /\ CtlRuns /\ ctlPc = "unlock"
    /\ published' = biquad
    /\ ctlPc' = "encoder"
    /\ UNCHANGED <<audioVars, tim2Pending, ctlValue, biquad, encoder_value>>
    /\ RtFrame

\* switch2 and the led; encoder.update(); encoder_value is brought up to date
CtlEncoder ==
    /\ CtlRuns /\ ctlPc = "encoder"
    /\ \E current_value \in EncoderValues :
          encoder_value' = IF current_value # encoder_value
                           THEN current_value ELSE encoder_value
    /\ ctlPc' = "idle"
    /\ UNCHANGED <<audioVars, tim2Pending, ctlValue, biquad, published>>
    /\ RtFrame

RtNext ==
    \/ DmaIrq
    \/ Tim2Irq
    \/ AudioEnter
    \/ AudioRead
    \/ AudioRun
    \/ AudioPush
    \/ AudioAdvance
    \/ CtlEnter
    \/ CtlReadAdc
    \/ CtlLock
    \/ CtlWriteB
    \/ CtlWriteA
    \/ CtlUnlock
    \/ CtlEncoder

RtSpec == RtInit /\ [][RtNext]_vars

-----------------------------------------------------------------------------
(* A BinaryInput polled by its owner while the line it reads may change level *)
(* at any moment, also between the pin reads of one save_state call.          *)

InputTypes == {"ActiveHigh", "ActiveLow"}

\* is_input_high: the electrical level read through the input's type
IsInputHigh(input_type, level) ==
    IF input_type = "ActiveHigh" THEN level ELSE ~level

\* save_state taking the second reading whatever the first one was
EdgeSeenAlways(input_state, saved_state) == TRUE

\* the left operand of save_state's condition
EdgeSeen(input_state, saved_state) == input_state # saved_state

InputInit ==
    /\ CommonInit
    /\ pin \in BOOLEAN
    /\ \E input_type \in InputTypes : binary_input = NewBinaryInput(input_type)
    /\ savePc = "idle" /\ polls = 0 /\ poll = NoPoll
    /\ GrainIdle /\ PoolIdle /\ MuxIdle /\ RtIdle /\ SdramIdle /\ BootIdle

InputFrame ==
    UNCHANGED <<commonVars, grainVars, poolVars, muxVars, audioVars, ctlVars,
                sdramVars, bootVars>>

\* the line changes level
LineChange ==
    /\ pin' = ~pin
    /\ poll' = IF savePc = "idle" THEN poll ELSE [poll EXCEPT !.stable = FALSE]
    /\ UNCHANGED <<binary_input, savePc, polls>>
    /\ InputFrame

\* save_state, get_input_state() != get_saved_state(): the first pin read;
\* when the two agree the condition is false without a second read
SaveStateFirst ==
    /\ savePc = "idle"
    /\ polls < MaxPolls
    /\ LET first == IsInputHigh(binary_input.input_type, pin)
       IN  /\ poll' = [stable |-> TRUE, high |-> first,
                       saved |-> binary_input.state,
                       triggered |-> binary_input.transition,
                       stableBefore |-> poll.stable]
           /\ IF EdgeSeen(first, binary_input.state)
              THEN savePc' = "second" /\ UNCHANGED binary_input
              ELSE /\ savePc' = "store"
                   /\ binary_input' = [binary_input EXCEPT !.transition = FALSE]
    /\ UNCHANGED <<pin, polls>>
    /\ InputFrame

\* save_state, && is_input_high(): the second pin read decides transition
SaveStateSecond ==
    /\ savePc = "second"
    /\ binary_input' = [binary_input EXCEPT
                           !.transition = IsInputHigh(binary_input.input_type, pin)]
    /\ savePc' = "store"
    /\ UNCHANGED <<pin, polls, poll>>
    /\ InputFrame

\* save_state, self.state = self.is_input_high(): the third pin read
SaveStateStore ==
    /\ savePc = "store"
    /\ binary_input' = [binary_input EXCEPT
                           !.state = IsInputHigh(binary_input.input_type, pin)]
    /\ savePc' = "idle"
    /\ polls' = polls + 1
    /\ UNCHANGED <<pin, poll>>
    /\ InputFrame

InputNext ==
    \/ LineChange
    \/ SaveStateFirst
    \/ SaveStateSecond
    \/ SaveStateStore

InputSpec == InputInit /\ [][InputNext]_vars

-----------------------------------------------------------------------------
(* get_slice of sdram.rs called with element sizes, offsets and lengths from  *)
(* both sides of the end of the SDRAM and of the usize range.                 *)

\* size_of::<T>() of u8 and of f32
ElemSizes == {1, 4}
SliceOffsets == {0, 1, 2 ^ 24 - 1, 2 ^ 24, SDRAM_SIZE}
SliceLens == {0, 1, 2 ^ 24, SDRAM_SIZE, 2 ^ 30, 2 ^ 30 + 1, U32Max}

\* a usize doubling: the wrapped result and whether it overflowed
DoubleU32(a) ==
    [val |-> IF a >= 2 ^ 30 THEN (a - 2 ^ 30 - 2 ^ 30) * 2
             ELSE IF a < 0 - 2 ^ 30 THEN (a + 2 ^ 30 + 2 ^ 30) * 2
             ELSE a * 2,
     ovf |-> a < 0]

\* sized::<T>(v) = v * size_of::<T>(), the size a power of two
RECURSIVE Sized(_, _)
Sized(size_of_T, v) ==
    IF size_of_T = 1 THEN [val |-> v, ovf |-> FALSE]
    ELSE LET half == Sized(size_of_T \div 2, v)
             twice == DoubleU32(half.val)
         IN  [val |-> twice.val, ovf |-> half.ovf \/ twice.ovf]

\* get_slice: [some: it returned Some, addr: the address of the slice's
\* first element, ovf: some usize operation overflowed]
GetSlice(size_of_T, offset, len, checks) ==
    LET sum == AddU32(offset, len)
        bytes == Sized(size_of_T, sum.val)
        first == Sized(size_of_T, offset)
        addr == AddU32(SDRAM_BASE_ADDRESS, first.val)
    IN  IF checks /\ (sum.ovf \/ bytes.ovf)
        THEN [some |-> FALSE, addr |-> 0, ovf |-> TRUE]
        ELSE IF LtU32(bytes.val, SDRAM_SIZE)
        THEN [some |-> ~(checks /\ (first.ovf \/ addr.ovf)), addr |-> addr.val,
              ovf |-> sum.ovf \/ bytes.ovf \/ first.ovf \/ addr.ovf]
        ELSE [some |-> FALSE, addr |-> 0, ovf |-> sum.ovf \/ bytes.ovf]

SdramInit ==
    /\ CommonInit
    /\ SdramIdle
    /\ GrainIdle /\ PoolIdle /\ MuxIdle /\ RtIdle /\ InputIdle /\ BootIdle

GetSliceCall ==
    /\ ~panicked
    /\ \E size_of_T \in ElemSizes, offset \in SliceOffsets, len \in SliceLens :
          LET r == GetSlice(size_of_T, offset, len, overflow_checks)
          IN  /\ slice' = [called |-> TRUE, size_of_T |-> size_of_T,
                           offset |-> offset, len |-> len,
                           some |-> r.some, addr |-> r.addr]
              /\ Overflow(r.ovf)
              /\ lastOp' = "get_slice" /\ lastArg' = offset
              /\ lastRet' = IF r.some THEN 1 ELSE 0
    /\ UNCHANGED <<grainVars, poolVars, muxVars, audioVars, ctlVars, inputVars,
                   bootVars>>

SdramNext == GetSliceCall

SdramSpec == SdramInit /\ [][SdramNext]_vars

-----------------------------------------------------------------------------
(* The sample load of init (main.rs): every call into the SD card, the FAT    *)
(* volume and the file either succeeds or fails.                              *)

\* file_length_in_bytes of the file found on the card
FileBytes == {0, 4, CHUNK_SIZE - 4, CHUNK_SIZE, 2 * CHUNK_SIZE, 2 * CHUNK_SIZE + 4,
              3 * CHUNK_SIZE, 4 * CHUNK_SIZE}

ChunkIterator(b) == b.file_length_in_bytes \div CHUNK_SIZE

\* lcd.print_error_center(x, y, text): the text is drawn on the display
PrintErrorCenter(b, text) == [b EXCEPT !.shown = text]

\* a branch of init that draws an error message and panics
BootFailsShown(text) ==
    /\ boot' = [PrintErrorCenter(boot, text) EXCEPT !.failed = boot.pc]
    /\ panicked' = TRUE

\* an unwrap() of init on an Err: the panic with nothing drawn
BootFailsUnwrap ==
    /\ boot' = [boot EXCEPT !.failed = boot.pc]
    /\ panicked' = TRUE

BootFrame ==
    UNCHANGED <<overflow_checks, lastOp, lastArg, lastRet, wrapped, grainVars,
                poolVars, muxVars, playhead, index, frame, audioPc, lastRead,
                observed, dmaPending, ctlVars, inputVars, sdramVars>>

BootInit ==
    /\ CommonInit
    /\ BootIdle
    /\ GrainIdle /\ PoolIdle /\ MuxIdle /\ RtIdle /\ InputIdle /\ SdramIdle

InitCard ==
    /\ ~panicked /\ boot.pc = "init_card"
    /\ \/ boot' = [boot EXCEPT !.pc = "get_volume"] /\ UNCHANGED panicked
       \/ BootFailsShown("No SD card found!")
    /\ UNCHANGED file_length_in_samples
    /\ BootFrame

GetVolume ==
    /\ ~panicked /\ boot.pc = "get_volume"
    /\ \/ boot' = [boot EXCEPT !.pc = "open_root_dir"] /\ UNCHANGED panicked
       \/ BootFailsShown("Failed to get volume 0!")
    /\ UNCHANGED file_length_in_samples
    /\ BootFrame

OpenRootDir ==
    /\ ~panicked /\ boot.pc = "open_root_dir"
    /\ \/ boot' = [boot EXCEPT !.pc = "open_file_in_dir"] /\ UNCHANGED panicked
       \/ BootFailsShown("Failed to get file!")
    /\ UNCHANGED file_length_in_samples
    /\ BootFrame

\* the file is opened, its length taken and the empty loading bar drawn
OpenFileInDir ==
    /\ ~panicked /\ boot.pc = "open_file_in_dir"
    /\ \/ \E bytes \in FileBytes :
             /\ boot' = [boot EXCEPT !.pc = "seek_from_start",
                                     !.file_length_in_bytes = bytes,
                                     !.percentage = 0]
             /\ file_length_in_samples' = bytes \div 4
             /\ UNCHANGED panicked
       \/ BootFailsUnwrap /\ UNCHANGED file_length_in_samples
    /\ BootFrame

SeekFromStart ==
    /\ ~panicked /\ boot.pc = "seek_from_start"
    /\ \/ /\ boot' = [boot EXCEPT
                         !.pc = IF ChunkIterator(boot) > 0 THEN "read" ELSE "close_dir"]
          /\ UNCHANGED panicked
       \/ BootFailsUnwrap
    /\ UNCHANGED file_length_in_samples
    /\ BootFrame

\* one turn of the chunk loop: the chunk is read and stored, the bar redrawn
ReadChunk ==
    /\ ~panicked /\ boot.pc = "read"
    /\ \/ /\ boot' = [boot EXCEPT
                         !.i = boot.i + 1,
                         !.percentage = (boot.i * 100) \div ChunkIterator(boot),
                         !.pc = IF boot.i + 1 < ChunkIterator(boot)
                                THEN "read" ELSE "close_dir"]
          /\ UNCHANGED panicked
       \/ BootFailsUnwrap
    /\ UNCHANGED file_length_in_samples
    /\ BootFrame

\* the directory is closed; init goes on and returns, which starts the tasks
CloseDir ==
    /\ ~panicked /\ boot.pc = "close_dir"
    /\ boot' = [boot EXCEPT !.pc = "returned"]
    /\ UNCHANGED <<panicked, file_length_in_samples>>
    /\ BootFrame

BootNext ==
    \/ InitCard
    \/ GetVolume
    \/ OpenRootDir
    \/ OpenFileInDir
    \/ SeekFromStart
    \/ ReadChunk
    \/ CloseDir

BootSpec == BootInit /\ [][BootNext]_vars

-----------------------------------------------------------------------------
(* Claims about Grains::new and the pool *)

\* C1: Grains::new(n, ...) yields active_grains = n for 1 <= n <= MAX_GRAINS,
\* 1 for n = 0 and MAX_GRAINS for n > MAX_GRAINS.
C1_ActiveGrainsAsRequested ==
    pool.active_grains =
        IF poolAmount = 0 THEN 1
        ELSE IF poolAmount > MAX_GRAINS THEN MAX_GRAINS ELSE poolAmount

\* C10: in every reachable state of a pool, 1 <= active_grains <= MAX_GRAINS.
C10_ActiveGrainsInRange ==
    1 <= pool.active_grains /\ pool.active_grains <= MAX_GRAINS

\* C18: a step of Grains::start_window_funtion leaves every grain at an
\* index below active_grains armed (done = false, current_position = 0), and
\* a step of it or of Grains::set_offset leaves the slots from active_grains
\* on, active_grains, grain_size and grain_size_spread as they were.
C18_PoolFrame ==
    [][(lastOp' \in {"Grains::start_window_funtion", "Grains::set_offset"})
         => /\ pool'.active_grains = pool.active_grains
            /\ pool'.grain_size = pool.grain_size
            /\ pool'.grain_size_spread = pool.grain_size_spread
            /\ \A i \in 0 .. MAX_GRAINS - 1 :
                   i >= pool.active_grains => pool'.grains[i] = pool.grains[i]
            /\ lastOp' = "Grains::start_window_funtion"
                  => \A i \in 0 .. MAX_GRAINS - 1 :
                        i < pool.active_grains
                            => /\ ~pool'.grains[i].done
                               /\ pool'.grains[i].current_position = 0]_vars

\* C18 witness: a pool with one active grain after a start that followed a
\* set_offset: grain 0 is armed at its new offset, and slot 1 is still done
\* at the offset it was built with.
C18_Witness ==
    /\ lastOp = "Grains::start_window_funtion"
    /\ pool.active_grains = 1
    /\ ~pool.grains[0].done /\ pool.grains[0].offset # DefaultOffset
    /\ pool.grains[1].done /\ pool.grains[1].offset = DefaultOffset

-----------------------------------------------------------------------------
(* Claims about one grain *)

\* C2: every index update_sample_position returns is below sample_length
\* (stated for the grains whose sample_length covers their size, where no
\* subtraction of the grain can overflow).
C2_PositionInsideSample ==
    (/\ lastOp = "update_sample_position"
     /\ ~LtU32(grain.sample_length, SizeAsU32(grain)))
        => LtU32(lastRet, grain.sample_length)

\* C3: start_window_funtion leaves current_position = 0, playhead = 0 and
\* done = false, from any reachable grain state.
C3_StartResets ==
    lastOp = "start_window_funtion"
        => grain.current_position = 0 /\ grain.playhead = 0 /\ ~grain.done

\* C4 as claimed: set_offset(x) followed by set_offset(y) returns x from the
\* second call, for any x and y (stated for the grains whose sample_length
\* covers their size, where the subtraction of set_offset cannot overflow).
C4_ReturnsPreviousArgument ==
    (/\ lastOp = "set_offset" /\ prevOffsetArg.had
     /\ ~LtU32(grain.sample_length, SizeAsU32(grain)))
        => lastRet = prevOffsetArg.arg

\* sample_length - size as u32, as the grain's fields give it
C4_MaxOffset == SubU32(grain.sample_length, SizeAsU32(grain)).val

\* C4 as amended: the second call, when it returns, returns x clamped to
\* max_offset = sample_length - size (u32, wrapping without overflow checks),
\* that is min(x, max_offset).
C4_ReturnsPreviousClamped ==
    (lastOp = "set_offset" /\ ~panicked /\ prevOffsetArg.had)
        => lastRet = IF LtU32(C4_MaxOffset, prevOffsetArg.arg)
                     THEN C4_MaxOffset ELSE prevOffsetArg.arg

\* C4 witness: a second set_offset has returned after a first one whose
\* argument exceeded max_offset.
C4_Witness ==
    /\ lastOp = "set_offset" /\ ~panicked /\ prevOffsetArg.had
    /\ LtU32(C4_MaxOffset, prevOffsetArg.arg)
    /\ lastRet = C4_MaxOffset

\* C5: a grain started at playhead 0 with an integer window size L is done,
\* with playhead back at 0, from exactly the L-th update_next_sample call on
\* and not before it.
C5_DoneOnCallL ==
    (nsCalls >= 0 /\ grain.size % SizeUnit = 0)
        => LET L == grain.size \div SizeUnit
           IN  IF nsCalls >= L
               THEN grain.done /\ grain.playhead = 0 /\ doneCall = L
               ELSE ~grain.done

\* C9: with sample_length below the grain's size no grain operation faults
\* and no u32 subtraction wraps.
C9_NoFaultOnShortSample ==
    LtU32(grain.sample_length, SizeAsU32(grain)) => ~panicked /\ ~wrapped

\* C11: in every reachable state of a grain, current_position is at most
\* sample_length - size (size being the f32 window length in samples).
C11_PositionWithinWindow ==
    ~panicked
        => grain.current_position * SizeUnit
               <= grain.sample_length * SizeUnit - grain.size

\* C12: done = true implies playhead = 0 in every reachable grain state,
\* whichever operation has set done.
C12_DoneImpliesPlayheadZero ==
    grain.done => grain.playhead = 0

\* C13: set_offset(v) completes for any v, leaves the stored offset at
\* min(v, sample_length - size), which lies within [0, sample_length - size],
\* and returns the offset that was stored before the call (size read as the
\* whole number of samples the source subtracts, v as the u32 value it is).
C13_StoresClampedOffset ==
    lastOp = "set_offset"
        => LET max_offset == grain.sample_length - SizeAsU32(grain)
               v == lastArg
           IN  /\ ~panicked
               /\ max_offset >= 0
               /\ grain.offset = IF v < 0 \/ v > max_offset THEN max_offset ELSE v
               /\ lastRet = offsetBefore

-----------------------------------------------------------------------------
(* Claims about the multiplexed analog reader *)

\* C6: every channel c of 0..16 passed to read_value drives the select pins
\* to the binary pattern of c mod 8 and starts the conversion on multiplexer
\* A (mux1_pin) for 0..8 and on multiplexer B (mux2_pin) for 9..16.
C6_PatternAndRoute ==
    (lastOp = "read_value" /\ lastArg <= 16)
        => /\ select = <<Bit(lastArg % 8, 0), Bit(lastArg % 8, 1), Bit(lastArg % 8, 2)>>
           /\ conversion = IF lastArg <= 8 THEN "mux1_pin" ELSE "mux2_pin"

\* C14: for every input_number >= 16, read_value and get_value complete
\* without halting and without indexing the value cache outside 0..15 (an
\* index outside the cache is the panic of the bounds check).
C14_OutOfRangeChannelClamped ==
    (lastOp \in {"read_value", "get_value"} /\ lastArg >= 2 * MUX_INPUTS)
        => ~panicked

\* C19: no two different channels of 0..15 passed to read_value drive the
\* same (multiplexer, select-pin pattern) pair.
C19_DistinctPhysicalInputs ==
    \A r1, r2 \in routed :
        (/\ r1[1] < 2 * MUX_INPUTS /\ r2[1] < 2 * MUX_INPUTS
         /\ r1[1] # r2[1])
            => <<r1[2], r1[3]>> # <<r2[2], r2[3]>>

-----------------------------------------------------------------------------
(* Claims about the binary input *)

\* is_triggered() and is_saved_state_high() between two polls
IsTriggered == binary_input.transition
IsSavedStateHigh == binary_input.state

\* C15: after a save_state during which the line did not change,
\* is_triggered() is true exactly when the saved state before the poll was
\* low and the input was high at the poll; after a triggering poll the next
\* one leaves it false again (both polls with a stable line), so a falling
\* edge never triggers and a rising edge triggers for one polling cycle.
C15_TriggeredForOneCycle ==
    (savePc = "idle" /\ polls > 0 /\ poll.stable)
        => /\ IsTriggered <=> (~poll.saved /\ poll.high)
           /\ (poll.stableBefore /\ poll.triggered) => ~IsTriggered

\* C15 witness: a poll has triggered on a rising edge and the next poll, the
\* input still high, has taken the trigger back.
C15_Witness ==
    /\ savePc = "idle" /\ polls >= 2
    /\ poll.stable /\ poll.stableBefore
    /\ poll.triggered /\ poll.high /\ ~IsTriggered

\* C20: whatever the line does between the pin reads of save_state,
\* afterwards is_triggered() implies is_saved_state_high(), and
\* is_triggered() is not true after two consecutive save_state calls.
C20_TriggeredImpliesSavedHigh ==
    (savePc = "idle" /\ polls > 0)
        => /\ IsTriggered => IsSavedStateHigh
           /\ poll.triggered => ~IsTriggered

-----------------------------------------------------------------------------
(* Claims about the SDRAM slices *)

\* (offset + len) * size_of(T) <= SDRAM_SIZE, on the numbers themselves
C16_Fits(size_of_T, offset, len) ==
    /\ offset >= 0 /\ offset <= SDRAM_SIZE \div size_of_T
    /\ len >= 0 /\ len <= SDRAM_SIZE \div size_of_T - offset

\* C16: get_slice returns Some exactly when (offset + len) * size_of(T) is at
\* most SDRAM_SIZE and None otherwise, and a slice it returns lies inside
\* the SDRAM: it starts at most SDRAM_SIZE bytes behind the base address and
\* its len elements end at or before the end of the region.
C16_SomeExactlyWhenFits ==
    slice.called
        => /\ ~panicked
           /\ slice.some <=> C16_Fits(slice.size_of_T, slice.offset, slice.len)
           /\ slice.some
                 => LET first == SubU32(slice.addr, SDRAM_BASE_ADDRESS).val
                    IN  /\ first >= 0 /\ first <= SDRAM_SIZE
                        /\ slice.len >= 0
                        /\ slice.len <= (SDRAM_SIZE - first) \div slice.size_of_T

-----------------------------------------------------------------------------
(* Claims about the sample load at boot *)

\* C17: whichever step of the sample load fails (init_card, get_volume,
\* open_root_dir, open_file_in_dir, seek_from_start, read), init halts with
\* an error message drawn on the display and does not return.
C17_LoadFailureShown ==
    boot.failed # "none"
        => panicked /\ boot.shown # "" /\ boot.pc # "returned"

-----------------------------------------------------------------------------
(* Claims about the interrupt handlers *)

\* C7: every store index audio_handler reads lies in [0, N), N being the
\* number of samples loaded (stated for the files longer than the skipped
\* header, N > 457).
C7_ReadsInsideLoaded ==
    (lastRead # -1 /\ file_length_in_samples > PlayheadStart)
        => (0 <= lastRead /\ lastRead < file_length_in_samples)

\* C8: audio_handler is never inside its biquad.lock section while
\* interface_handler is inside its own, and what the section sees is the
\* coefficient set as the last completed section of interface_handler left
\* it, never a partly written one.
C8_NoPartialObservation ==
    /\ ~(audioPc = "run" /\ InBiquadLock)
    /\ observed.seen = observed.published

\* C8 witness: audio_handler has preempted interface_handler right behind its
\* critical section and has seen the coefficients it has just published.
C8_Witness ==
    /\ audioPc = "push" /\ ctlPc = "encoder"
    /\ observed.seen = [b |-> 2, a |-> 2]
    /\ observed.seen = published

\* C21: interface_handler takes no step while an audio_handler invocation is
\* under way, so the biquad's coefficients do not change inside a block, and
\* every biquad.lock section of a block after its first sees the coefficient
\* set the section before it saw.
C21_BlockSeesOneCoefficientSet ==
    [][/\ audioPc # "idle" => (biquad' = biquad /\ ctlPc' = ctlPc)
       /\ (audioPc = "run" /\ audioPc' = "push" /\ frame > 0)
             => observed'.seen = observed.seen]_vars

\* C21 witness: audio_handler is past the first sample of a block it began
\* while interface_handler was about to replace the coefficients by other
\* ones, and has seen the old set.
C21_Witness ==
    /\ audioPc = "push" /\ frame >= 1
    /\ ctlPc = "lock" /\ ctlValue # biquad.b
    /\ observed.seen = biquad

====
